---------------------------- MODULE Spec2Model ----------------------------
(***************************************************************************)
(* Model of h1-shader-packager: the TEA block cipher with its partial-     *)
(* block buffer policy (crypt.hpp, crypt.cpp), the MD5 digest string       *)
(* (crypt.cpp), the chunk enumerator and the archive codec (archive.hpp,   *)
(* archive.cpp), and the unpack / pack operations of the tool (main.cpp).  *)
(*                                                                         *)
(* A byte is an integer 0..255 and a buffer is a sequence of bytes.  A     *)
(* std::uint32_t is a pair <<hi, lo>> of 16-bit halves, so that every      *)
(* addition, subtraction and shift is taken modulo 2^32 exactly as the     *)
(* machine takes it.                                                       *)
(***************************************************************************)
EXTENDS Integers, Sequences, FiniteSets, TLC

(***************************************************************************)
(* 32-bit unsigned arithmetic on 16-bit halves                             *)
(***************************************************************************)
Half == 256 * 256

Pow2 == <<1, 2, 4, 8, 16, 32, 64, 128, 256, 512, 1024, 2048, 4096, 8192,
          16384, 32768, 65536>>

\* 2^n for n in 0..16
TwoTo(n) == Pow2[n + 1]

RECURSIVE BitOp(_, _, _, _)
\* bitwise combination of the n low bits of a and b; tt is the truth table
\* <<f(0,0), f(0,1), f(1,0), f(1,1)>>
BitOp(tt, a, b, n) ==
    IF n = 0 THEN 0
    ELSE tt[2 * (a % 2) + (b % 2) + 1] + 2 * BitOp(tt, a \div 2, b \div 2, n - 1)

\* tables over 4-bit digits, evaluated once
XorNib == [a \in 0..15 |-> [b \in 0..15 |-> BitOp(<<0, 1, 1, 0>>, a, b, 4)]]
AndNib == [a \in 0..15 |-> [b \in 0..15 |-> BitOp(<<0, 0, 0, 1>>, a, b, 4)]]
OrNib  == [a \in 0..15 |-> [b \in 0..15 |-> BitOp(<<0, 1, 1, 1>>, a, b, 4)]]

\* tables over bytes, built from the 4-bit tables and evaluated once
ByteTable(T) ==
    [a \in 0..255 |-> [b \in 0..255 |->
        T[a % 16][b % 16] + 16 * T[a \div 16][b \div 16]]]
XorByte == ByteTable(XorNib)
AndByte == ByteTable(AndNib)
OrByte  == ByteTable(OrNib)

\* a 16-bit operation from its byte table
Op16(T, a, b) == T[a % 256][b % 256] + 256 * T[a \div 256][b \div 256]

\* operator ^ on std::uint32_t
xor32(a, b) == <<Op16(XorByte, a[1], b[1]), Op16(XorByte, a[2], b[2])>>
\* operator & on std::uint32_t
and32(a, b) == <<Op16(AndByte, a[1], b[1]), Op16(AndByte, a[2], b[2])>>
\* operator | on std::uint32_t
or32(a, b) == <<Op16(OrByte, a[1], b[1]), Op16(OrByte, a[2], b[2])>>
\* operator ~ on std::uint32_t
not32(a) == <<Half - 1 - a[1], Half - 1 - a[2]>>

\* operator + on std::uint32_t, modulo 2^32
add32(a, b) ==
    LET lo == a[2] + b[2]
    IN  <<(a[1] + b[1] + (lo \div Half)) % Half, lo % Half>>

\* operator - on std::uint32_t, modulo 2^32
sub32(a, b) ==
    LET lo == a[2] - b[2]
        borrow == IF lo < 0 THEN 1 ELSE 0
    IN  <<(a[1] - b[1] - borrow + Half) % Half, (lo + Half) % Half>>

\* v << 4u on std::uint32_t: the four high bits fall off
shl4(v) == <<((v[1] * 16) % Half) + (v[2] \div 4096), (v[2] * 16) % Half>>

\* v >> 5u on std::uint32_t
shr5(v) == <<v[1] \div 32, (v[2] \div 32) + (v[1] % 32) * 2048>>

\* rotation of a 32-bit word to the left by s bits, 0 < s < 32
rotl32(v, s) ==
    LET w == IF s >= 16 THEN <<v[2], v[1]>> ELSE v
        r == s % 16
    IN  IF r = 0 THEN w
        ELSE <<((w[1] * TwoTo(r)) % Half) + (w[2] \div TwoTo(16 - r)),
               ((w[2] * TwoTo(r)) % Half) + (w[1] \div TwoTo(16 - r))>>

(***************************************************************************)
(* io.hpp: serialize / deserialize of a std::uint32_t, little-endian       *)
(***************************************************************************)
\* the four bytes of a word, least significant first
serialize(v) == <<v[2] % 256, v[2] \div 256, v[1] % 256, v[1] \div 256>>

\* the word stored little-endian in bytes at..at+3 of buf (at is 1-based)
deserialize(buf, at) ==
    <<buf[at + 2] + 256 * buf[at + 3], buf[at] + 256 * buf[at + 1]>>

(***************************************************************************)
(* crypt.cpp: the Tiny Encryption Algorithm on one 8-byte chunk            *)
(***************************************************************************)
\* tea::chunk_size
chunk_size == 8

\* h1_tea.key
key == << <<16383, 65501>>, <<0, 32707>>, <<0, 229>>, <<63, 65519>> >>

\* const uint32_t delta = 0x9E3779B9
delta == <<40503, 31161>>

\* uint32_t sum = 0xC6EF3720, the start of decrypt_chunk's accumulator
decrypt_sum0 == <<50927, 14112>>

\* the number of rounds of both loops
tea_rounds == 32

\* ((x << 4u) + ka) ^ (x + sum) ^ ((x >> 5u) + kb)
tea_mix(x, sum, ka, kb) ==
    xor32(xor32(add32(shl4(x), ka), add32(x, sum)), add32(shr5(x), kb))

\* one pass of encrypt_chunk's loop on st = <<v0, v1, sum, i>>
encrypt_round(st) ==
    LET s  == add32(st[3], delta)
        n0 == add32(st[1], tea_mix(st[2], s, key[1], key[2]))
        n1 == add32(st[2], tea_mix(n0, s, key[3], key[4]))
    IN  <<n0, n1, s, st[4] + 1>>

RECURSIVE encrypt_rounds(_)
\* for (int i = 0; i < 32; ++i) of encrypt_chunk
encrypt_rounds(st) ==
    IF st[4] >= tea_rounds THEN st ELSE encrypt_rounds(encrypt_round(st))

\* one pass of decrypt_chunk's loop on st = <<v0, v1, sum, i>>
decrypt_round(st) ==
    LET n1 == sub32(st[2], tea_mix(st[1], st[3], key[3], key[4]))
        n0 == sub32(st[1], tea_mix(n1, st[3], key[1], key[2]))
    IN  <<n0, n1, sub32(st[3], delta), st[4] + 1>>

RECURSIVE decrypt_rounds(_)
\* for (int i = 0; i < 32; ++i) of decrypt_chunk
decrypt_rounds(st) ==
    IF st[4] >= tea_rounds THEN st ELSE decrypt_rounds(decrypt_round(st))

\* tea::encrypt_chunk on the 8 bytes of buf that start at index at
encrypt_chunk(buf, at) ==
    LET r == encrypt_rounds(<<deserialize(buf, at), deserialize(buf, at + 4),
                              <<0, 0>>, 0>>)
    IN  serialize(r[1]) \o serialize(r[2])

\* decrypt_chunk with the accumulator starting at 0
decrypt_chunk_from_zero(buf, at) ==
    LET r == decrypt_rounds(<<deserialize(buf, at), deserialize(buf, at + 4),
                              <<0, 0>>, 0>>)
    IN  serialize(r[1]) \o serialize(r[2])

\* tea::decrypt_chunk on the 8 bytes of buf that start at index at
decrypt_chunk(buf, at) ==
    LET r == decrypt_rounds(<<deserialize(buf, at), deserialize(buf, at + 4),
                              decrypt_sum0, 0>>)
    IN  serialize(r[1]) \o serialize(r[2])

\* buf with the 8 bytes starting at index at replaced by blk
put_chunk(buf, at, blk) ==
    [i \in 1..Len(buf) |->
        IF i >= at /\ i < at + chunk_size THEN blk[i - at + 1] ELSE buf[i]]

(***************************************************************************)
(* crypt.hpp: whole-buffer encryption and decryption                       *)
(***************************************************************************)
RECURSIVE encrypt_whole(_, _, _)
\* the loop of encrypt_buffer: chunks at, at+8, ... up to (not including) end
encrypt_whole(buf, at, end) ==
    IF at >= end THEN buf
    ELSE encrypt_whole(put_chunk(buf, at, encrypt_chunk(buf, at)),
                       at + chunk_size, end)

RECURSIVE decrypt_whole(_, _, _)
\* the loop of decrypt_buffer
decrypt_whole(buf, at, end) ==
    IF at >= end THEN buf
    ELSE decrypt_whole(put_chunk(buf, at, decrypt_chunk(buf, at)),
                       at + chunk_size, end)

\* encrypt_buffer without the second pass over the last 8 bytes
encrypt_buffer_no_tail(buf) ==
    LET len == Len(buf)
        rem == len % chunk_size
    IN  IF len < chunk_size THEN buf
        ELSE encrypt_whole(buf, 1, len - rem + 1)

\* encrypt_buffer(h1_tea, buf)
encrypt_buffer(buf) ==
    LET len == Len(buf)
        rem == len % chunk_size
    IN  IF len < chunk_size THEN buf
        ELSE LET front == encrypt_whole(buf, 1, len - rem + 1)
             IN  IF rem # 0
                 THEN put_chunk(front, len - chunk_size + 1,
                                encrypt_chunk(front, len - chunk_size + 1))
                 ELSE front

\* decrypt_buffer with the whole chunks decrypted before the last 8 bytes
decrypt_buffer_front_first(buf) ==
    LET len == Len(buf)
        rem == len % chunk_size
    IN  IF len < chunk_size \/ len <= 0 THEN buf
        ELSE LET front == decrypt_whole(buf, 1, len - rem + 1)
             IN  IF rem # 0
                 THEN put_chunk(front, len - chunk_size + 1,
                                decrypt_chunk(front, len - chunk_size + 1))
                 ELSE front

\* decrypt_buffer(h1_tea, buf)
decrypt_buffer(buf) ==
    LET len == Len(buf)
        rem == len % chunk_size
    IN  IF len < chunk_size \/ len <= 0 THEN buf
        ELSE LET tail == IF rem # 0
                         THEN put_chunk(buf, len - chunk_size + 1,
                                        decrypt_chunk(buf, len - chunk_size + 1))
                         ELSE buf
             IN  decrypt_whole(tail, 1, len - rem + 1)

(***************************************************************************)
(* crypt.cpp: compute_md5_digest, the MD5 of a buffer as 32 hex characters *)
(***************************************************************************)
md5_K == <<
  <<55146, 42104>>, <<59591, 46934>>, <<9248, 28891>>, <<49597, 52974>>,
  <<62844, 4015>>, <<18311, 50730>>, <<43056, 17939>>, <<64838, 38145>>,
  <<27008, 39128>>, <<35652, 63407>>, <<65535, 23473>>, <<35164, 55230>>,
  <<27536, 4386>>, <<64920, 29075>>, <<42617, 17294>>, <<18868, 2081>>,
  <<63006, 9570>>, <<49216, 45888>>, <<9822, 23121>>, <<59830, 51114>>,
  <<54831, 4189>>, <<580, 5203>>, <<55457, 59009>>, <<59347, 64456>>,
  <<8673, 52710>>, <<49975, 2006>>, <<62677, 3463>>, <<17754, 5357>>,
  <<43491, 59653>>, <<64751, 41976>>, <<26479, 729>>, <<36138, 19594>>,
  <<65530, 14658>>, <<34673, 63105>>, <<28061, 24866>>, <<64997, 14348>>,
  <<42174, 59972>>, <<19422, 53161>>, <<63163, 19296>>, <<48831, 48240>>,
  <<10395, 32454>>, <<60065, 10234>>, <<54511, 12421>>, <<1160, 7429>>,
  <<55764, 53305>>, <<59099, 39397>>, <<8098, 31992>>, <<50348, 22117>>,
  <<62505, 8772>>, <<17194, 65431>>, <<43924, 9127>>, <<64659, 41017>>,
  <<25947, 22979>>, <<36620, 52370>>, <<65519, 62589>>, <<34180, 24017>>,
  <<28584, 32335>>, <<65068, 59104>>, <<41729, 17172>>, <<19976, 4513>>,
  <<63315, 32386>>, <<48442, 62005>>, <<10967, 53947>>, <<60294, 54161>> >>

md5_S == <<7, 12, 17, 22, 7, 12, 17, 22, 7, 12, 17, 22, 7, 12, 17, 22,
           5, 9, 14, 20, 5, 9, 14, 20, 5, 9, 14, 20, 5, 9, 14, 20,
           4, 11, 16, 23, 4, 11, 16, 23, 4, 11, 16, 23, 4, 11, 16, 23,
           6, 10, 15, 21, 6, 10, 15, 21, 6, 10, 15, 21, 6, 10, 15, 21>>

md5_init == << <<26437, 8961>>, <<61389, 43913>>, <<39098, 56574>>,
               <<4146, 21622>> >>

\* the message followed by 0x80, zeros up to 56 modulo 64, and its length in
\* bits as 8 little-endian bytes
md5_pad(msg) ==
    LET n     == Len(msg)
        zeros == (119 - n) % 64
        bits  == 8 * n
    IN  msg \o <<128>> \o [i \in 1..zeros |-> 0]
            \o <<bits % 256, (bits \div 256) % 256, (bits \div 65536) % 256,
                 bits \div 16777216, 0, 0, 0, 0>>

\* one of the 64 steps of the compression function on st = <<A, B, C, D, i>>;
\* M is the block as sixteen little-endian words
md5_step(st, M) ==
    LET B == st[2]
        C == st[3]
        D == st[4]
        i == st[5]
        F == IF i < 16 THEN or32(and32(B, C), and32(not32(B), D))
             ELSE IF i < 32 THEN or32(and32(D, B), and32(not32(D), C))
             ELSE IF i < 48 THEN xor32(xor32(B, C), D)
             ELSE xor32(C, or32(B, not32(D)))
        g == IF i < 16 THEN i
             ELSE IF i < 32 THEN (5 * i + 1) % 16
             ELSE IF i < 48 THEN (3 * i + 5) % 16
             ELSE (7 * i) % 16
        X == add32(add32(add32(F, st[1]), md5_K[i + 1]), M[g + 1])
    IN  <<D, add32(B, rotl32(X, md5_S[i + 1])), B, C, i + 1>>

RECURSIVE md5_steps(_, _)
md5_steps(st, M) ==
    IF st[5] >= 64 THEN st ELSE md5_steps(md5_step(st, M), M)

RECURSIVE md5_blocks(_, _, _)
\* the 64-byte blocks of padded from index base on, folded into st
md5_blocks(st, padded, base) ==
    IF base > Len(padded) THEN st
    ELSE LET M == [g \in 1..16 |-> deserialize(padded, base + 4 * (g - 1))]
             r == md5_steps(<<st[1], st[2], st[3], st[4], 0>>, M)
         IN  md5_blocks(<<add32(st[1], r[1]), add32(st[2], r[2]),
                          add32(st[3], r[3]), add32(st[4], r[4])>>,
                        padded, base + 64)

\* MD5(buf): the 16 digest bytes
MD5(buf) ==
    LET st == md5_blocks(md5_init, md5_pad(buf), 1)
    IN  serialize(st[1]) \o serialize(st[2]) \o serialize(st[3])
            \o serialize(st[4])

\* the character codes of "0123456789abcdef"
hex_digit(n) == IF n < 10 THEN 48 + n ELSE 87 + n

RECURSIVE hex_string(_)
\* snprintf("%02hhx") of each byte, concatenated
hex_string(bytes) ==
    IF bytes = <<>> THEN <<>>
    ELSE <<hex_digit(Head(bytes) \div 16), hex_digit(Head(bytes) % 16)>>
            \o hex_string(Tail(bytes))

\* compute_md5_digest hashing an empty range whatever the buffer
compute_md5_digest_of_nothing(buf) == hex_string(MD5(<<>>))

\* the 32 lowercase hex characters of the MD5 of buf (as character codes)
compute_md5_digest(buf) == hex_string(MD5(buf))

(***************************************************************************)
(* archive.hpp / archive.cpp: byte_buffer, std::span and the enumerator    *)
(***************************************************************************)
\* sizeof(chunk_size_type), the size of a chunk's length field
header_size == 4

\* the size of the MD5 string with its null terminator
trailer_size == 33

\* the smallest file read_from_file goes on to decrypt
min_file_size == 34

\* byte_buffer{}: no buffer is owned
empty_buffer == [owned |-> FALSE, bytes |-> <<>>, nbytes |-> 0]

\* std::span<std::byte>{}; a span that is not null covers bytes
\* off+1 .. off+size of the buffer it points into
null_span == [null |-> TRUE, off |-> 0, size |-> 0]

\* archive{}
empty_archive == [filebuf |-> empty_buffer, data |-> null_span]

\* byte_buffer::range
range(buf) ==
    IF buf.owned THEN [null |-> FALSE, off |-> 0, size |-> buf.nbytes]
    ELSE [null |-> TRUE, off |-> 0, size |-> buf.nbytes]

\* std::span::first
first(sp, n) == [null |-> sp.null, off |-> sp.off, size |-> n]

\* std::span::last
last(sp, n) == [null |-> sp.null, off |-> sp.off + (sp.size - n), size |-> n]

\* the bytes of mem that span sp covers
span_bytes(mem, sp) == SubSeq(mem, sp.off + 1, sp.off + sp.size)

\* a std::uint32_t converted to std::size_t (64 bits) compared with a small
\* size: w > n
word_gt(w, n) == IF w[1] >= 32768 THEN TRUE ELSE w[1] * Half + w[2] > n

\* the value of a word known to be below 2^31
word_value(w) == w[1] * Half + w[2]

\* a size below 2^32 as a std::uint32_t
to_word(n) == <<n \div Half, n % Half>>

\* archive_enumerator::is_at_end
is_at_end(r) == r.size = 0

\* has_error with the sum chunk_size + sizeof(chunk_size_type) taken in 32
\* bits
has_error_wrapping(mem, r) ==
    IF is_at_end(r) THEN FALSE
    ELSE IF r.size < header_size THEN TRUE
    ELSE word_gt(add32(deserialize(mem, r.off + 1), to_word(header_size)),
                 r.size)

\* archive_enumerator::has_error
has_error(mem, r) ==
    IF is_at_end(r) THEN FALSE
    ELSE IF r.size < header_size THEN TRUE
    ELSE word_gt(deserialize(mem, r.off + 1), r.size - header_size)

\* archive_enumerator::finished
finished(mem, r) == is_at_end(r) \/ has_error(mem, r)

\* advance moving past the payload only
advance_payload_only(mem, r) ==
    IF ~finished(mem, r)
    THEN LET chunk == word_value(deserialize(mem, r.off + 1))
         IN  last(r, r.size - chunk)
    ELSE r

\* advance staying where it is at a chunk with no payload
advance_stuck_on_empty(mem, r) ==
    IF ~finished(mem, r)
    THEN LET chunk == word_value(deserialize(mem, r.off + 1))
         IN  IF chunk = 0 THEN r ELSE last(r, r.size - chunk - header_size)
    ELSE r

\* archive_enumerator::advance
advance(mem, r) ==
    IF ~finished(mem, r)
    THEN LET chunk == word_value(deserialize(mem, r.off + 1))
         IN  last(r, r.size - chunk - header_size)
    ELSE r

\* archive_enumerator::data
enumerator_data(mem, r) ==
    IF finished(mem, r) THEN null_span
    ELSE [null |-> FALSE, off |-> r.off + header_size,
          size |-> word_value(deserialize(mem, r.off + 1))]

\* archive::enumerate
enumerate(a) == a.data

(***************************************************************************)
(* archive.cpp: read_file, write_file                                      *)
(***************************************************************************)
\* a path that holds no file
no_file == [exists |-> FALSE, bytes |-> <<>>]

\* a file with the given contents
file_of(bytes) == [exists |-> TRUE, bytes |-> bytes]

\* read_file: nothing is returned when the file cannot be opened or its
\* size is not positive
read_file(f) ==
    IF ~f.exists THEN empty_buffer
    ELSE IF Len(f.bytes) <= 0 THEN empty_buffer
    ELSE [owned |-> TRUE, bytes |-> f.bytes, nbytes |-> Len(f.bytes)]

(***************************************************************************)
(* archive.cpp: read_from_file, load_members_from, flush_to_file           *)
(***************************************************************************)
\* the validation loop counting from 1
validate_from_one(mem, e) ==
    LET RECURSIVE loop(_, _)
        loop(x, member) ==
            IF finished(mem, x) THEN [e |-> x, member |-> member]
            ELSE loop(advance(mem, x), member + 1)
    IN  loop(e, 1)

\* the validation loop looking at the first chunk only
validate_one_chunk(mem, e) ==
    IF finished(mem, e) THEN [e |-> e, member |-> 0]
    ELSE [e |-> advance(mem, e), member |-> 1]

\* long member = 0; archive_enumerator e{archive_data};
\* for (; e; e.advance()) { ++member; }: the enumerator and the count reached
validate(mem, e) ==
    LET RECURSIVE loop(_, _)
        loop(x, member) ==
            IF finished(mem, x) THEN [e |-> x, member |-> member]
            ELSE loop(advance(mem, x), member + 1)
    IN  loop(e, 0)

\* a failed read that drops what the archive held
read_failed_and_reset(a, ret, member) ==
    [ret |-> ret, archive |-> empty_archive, member |-> member]

\* return read_error::...; before filebuf and data are assigned: the
\* archive is as it was.  member is the index printed to stderr (-1: none)
read_failed(a, ret, member) == [ret |-> ret, archive |-> a, member |-> member]

\* read_from_file comparing the 32 digest characters and not the byte after
\* them
read_from_file_unterminated(a, f) ==
    LET buf == read_file(f)
    IN  IF ~buf.owned
        THEN read_failed(a, "could_not_open_file", -1)
        ELSE IF buf.nbytes < min_file_size
        THEN read_failed(a, "archive_data_is_corrupt", -1)
        ELSE
        LET archive_data == first(range(buf), buf.nbytes - trailer_size)
            plain        == decrypt_buffer(buf.bytes)
            archive_md5  == span_bytes(plain, last(range(buf), trailer_size))
            md5_str      == compute_md5_digest(span_bytes(plain, archive_data))
        IN  IF SubSeq(archive_md5, 1, Len(md5_str)) # md5_str
            THEN read_failed(a, "archive_data_is_corrupt", -1)
            ELSE
            LET v == validate(plain, archive_data)
            IN  IF has_error(plain, v.e)
                THEN read_failed(a, "archive_data_is_corrupt", v.member)
                ELSE [ret |-> "success",
                      archive |-> [filebuf |-> [owned |-> TRUE,
                                                bytes |-> plain,
                                                nbytes |-> buf.nbytes],
                                   data |-> archive_data],
                      member |-> -1]

\* archive::read_from_file on archive a and the file f found at the path
read_from_file(a, f) ==
    LET buf == read_file(f)
    IN  IF ~buf.owned
        THEN read_failed(a, "could_not_open_file", -1)
        ELSE IF buf.nbytes < min_file_size
        THEN read_failed(a, "archive_data_is_corrupt", -1)
        ELSE
        LET archive_data == first(range(buf), buf.nbytes - trailer_size)
            plain        == decrypt_buffer(buf.bytes)
            archive_md5  == span_bytes(plain, last(range(buf), trailer_size))
            md5_sv       == compute_md5_digest(span_bytes(plain, archive_data))
                                \o <<0>>
        IN  IF archive_md5 # md5_sv
            THEN read_failed(a, "archive_data_is_corrupt", -1)
            ELSE
            LET v == validate(plain, archive_data)
            IN  IF has_error(plain, v.e)
                THEN read_failed(a, "archive_data_is_corrupt", v.member)
                ELSE [ret |-> "success",
                      archive |-> [filebuf |-> [owned |-> TRUE,
                                                bytes |-> plain,
                                                nbytes |-> buf.nbytes],
                                   data |-> archive_data],
                      member |-> -1]

RECURSIVE write_members_skipping_empty(_)
\* the member loop writing nothing at all for a member of no bytes
write_members_skipping_empty(member_bufs) ==
    IF member_bufs = <<>> THEN <<>>
    ELSE (IF Head(member_bufs) = <<>> THEN <<>>
          ELSE serialize(to_word(Len(Head(member_bufs)))) \o Head(member_bufs))
            \o write_members_skipping_empty(Tail(member_bufs))

RECURSIVE write_members(_)
\* the loop that writes each member's length field and payload
write_members(member_bufs) ==
    IF member_bufs = <<>> THEN <<>>
    ELSE serialize(to_word(Len(Head(member_bufs)))) \o Head(member_bufs)
            \o write_members(Tail(member_bufs))

\* load_members_from leaving the chunk region over the whole buffer
load_members_from_whole(a, member_bufs) ==
    LET chunks     == write_members(member_bufs)
        total_size == Len(chunks) + trailer_size
        bytes      == chunks \o compute_md5_digest(chunks) \o <<0>>
        buf        == [owned |-> TRUE, bytes |-> bytes, nbytes |-> total_size]
    IN  [filebuf |-> buf, data |-> range(buf)]

\* archive::load_members_from
load_members_from(a, member_bufs) ==
    LET chunks     == write_members(member_bufs)
        total_size == Len(chunks) + trailer_size
        bytes      == chunks \o compute_md5_digest(chunks) \o <<0>>
        buf        == [owned |-> TRUE, bytes |-> bytes, nbytes |-> total_size]
    IN  [filebuf |-> buf, data |-> first(range(buf), buf.nbytes - trailer_size)]

\* flush_to_file opening the file before it looks at the chunk data
flush_to_file_open_first(a, writable) ==
    IF ~writable
    THEN [ret |-> "could_not_open_file", archive |-> a, written |-> FALSE,
          bytes |-> <<>>]
    ELSE IF a.data.size < header_size
    THEN [ret |-> "no_data_to_write", archive |-> a, written |-> FALSE,
          bytes |-> <<>>]
    ELSE [ret |-> "success", archive |-> empty_archive, written |-> TRUE,
          bytes |-> encrypt_buffer(a.filebuf.bytes)]

\* flush_to_file keeping what the archive held after writing it
flush_to_file_keeping(a, writable) ==
    IF a.data.size < header_size
    THEN [ret |-> "no_data_to_write", archive |-> a, written |-> FALSE,
          bytes |-> <<>>]
    ELSE IF ~writable
    THEN [ret |-> "could_not_open_file", archive |-> a, written |-> FALSE,
          bytes |-> <<>>]
    ELSE [ret |-> "success", archive |-> a, written |-> TRUE,
          bytes |-> encrypt_buffer(a.filebuf.bytes)]

\* flush_to_file encrypting the buffer before it opens the file
flush_to_file_encrypt_first(a, writable) ==
    IF a.data.size < header_size
    THEN [ret |-> "no_data_to_write", archive |-> a, written |-> FALSE,
          bytes |-> <<>>]
    ELSE IF ~writable
    THEN [ret |-> "could_not_open_file",
          archive |-> [a EXCEPT !.filebuf.bytes = encrypt_buffer(@)],
          written |-> FALSE, bytes |-> <<>>]
    ELSE [ret |-> "success", archive |-> empty_archive, written |-> TRUE,
          bytes |-> encrypt_buffer(a.filebuf.bytes)]

\* archive::flush_to_file on archive a; writable tells whether fopen(file,
\* "wb") succeeds.  written tells whether the file was written, with bytes
flush_to_file(a, writable) ==
    IF a.data.size < header_size
    THEN [ret |-> "no_data_to_write", archive |-> a, written |-> FALSE,
          bytes |-> <<>>]
    ELSE IF ~writable
    THEN [ret |-> "could_not_open_file", archive |-> a, written |-> FALSE,
          bytes |-> <<>>]
    ELSE [ret |-> "success", archive |-> empty_archive, written |-> TRUE,
          bytes |-> encrypt_buffer(a.filebuf.bytes)]

(***************************************************************************)
(* archive.hpp: for_each with a visitor that may stop the iteration        *)
(***************************************************************************)
\* the visitors tried: each maps the payload and the number of earlier
\* invocations to a result, which tests true when it is not 0
Visitors == {"never", "nonempty", "second"}

visit(f, payload, calls) ==
    IF f = "nonempty" THEN Len(payload)
    ELSE IF f = "second" THEN (IF calls = 1 THEN 2 ELSE 0)
    ELSE 0

RECURSIVE for_each_unstopped(_, _, _, _)
\* the loop of for_each going on after a result that tests true
for_each_unstopped(mem, e, f, visited) ==
    IF finished(mem, e)
    THEN [visited |-> visited, has_value |-> FALSE, value |-> 0]
    ELSE LET payload == span_bytes(mem, enumerator_data(mem, e))
             result  == visit(f, payload, Len(visited))
             rest    == for_each_unstopped(mem, advance(mem, e), f,
                                           Append(visited, payload))
         IN  IF result # 0
             THEN [visited |-> rest.visited, has_value |-> TRUE,
                   value |-> result]
             ELSE rest

RECURSIVE for_each_from(_, _, _, _)
\* the loop of for_each from enumerator e on; visited lists the payloads the
\* visitor was invoked on so far
for_each_from(mem, e, f, visited) ==
    IF finished(mem, e)
    THEN [visited |-> visited, has_value |-> FALSE, value |-> 0]
    ELSE LET payload == span_bytes(mem, enumerator_data(mem, e))
             result  == visit(f, payload, Len(visited))
         IN  IF result # 0
             THEN [visited |-> Append(visited, payload), has_value |-> TRUE,
                   value |-> result]
             ELSE for_each_from(mem, advance(mem, e), f,
                                Append(visited, payload))

\* archive::for_each (the overload that returns std::optional)
for_each(a, f) == for_each_from(a.filebuf.bytes, enumerate(a), f, <<>>)

RECURSIVE enumerate_from(_, _)
\* for (auto e = enumerate(); e; e.advance()) f(e.data()): the payloads in
\* the order the loop meets them
enumerate_from(mem, e) ==
    IF finished(mem, e) THEN <<>>
    ELSE <<span_bytes(mem, enumerator_data(mem, e))>>
            \o enumerate_from(mem, advance(mem, e))

\* archive::for_each (the overload that returns nothing) collecting the
\* members' payloads
members_of(a) == enumerate_from(a.filebuf.bytes, enumerate(a))

(***************************************************************************)
(* main.cpp: the unpack and pack operations of the tool                    *)
(***************************************************************************)
\* names.hpp declares vs_names with 64 names, custom_fx_names with 120 and
\* retail_fx_names with 122.  The three tables are kept apart and in the
\* same order of size, each shortened to the length given here; a name is
\* written as its index in its table
vs_names_size        == 2
custom_fx_names_size == 3
retail_fx_names_size == 4

vs_names        == [i \in 1..vs_names_size |-> i]
custom_fx_names == [i \in 1..custom_fx_names_size |-> i]
retail_fx_names == [i \in 1..retail_fx_names_size |-> i]

Clients == {"pc", "ce"}
Types   == {"fx", "vsh"}

\* get_names(client, type)
get_names(client, type) ==
    IF type = "vsh" THEN vs_names
    ELSE IF type = "fx"
    THEN (IF client = "pc" THEN retail_fx_names
          ELSE IF client = "ce" THEN custom_fx_names
          ELSE <<>>)
    ELSE <<>>

\* get_archive_member_extension(type)
get_archive_member_extension(type) ==
    IF type = "vsh" THEN "vsh" ELSE IF type = "fx" THEN "fx" ELSE ""

\* main: op.prefix when PREFIX is not given
default_prefix(type) == IF type = "fx" THEN "fx/" ELSE "vsh/"

\* std::snprintf(..., "%s%s.%s", prefix, name, extension)
member_path(prefix, name, extension) == <<prefix, name, extension>>

\* every member file the tool can name
MemberPaths ==
    { member_path(default_prefix(t), n, get_archive_member_extension(t)) :
        t \in Types, n \in 1..retail_fx_names_size }

\* enum unpack_error { unpack_success, unpack_too_many_members,
\*                     unpack_write_error }
unpack_success          == 0
unpack_too_many_members == 1
unpack_write_error      == 2

RECURSIVE unpack_members(_, _, _, _, _, _)
\* archive.for_each with the lambda of perform_unpack_operation: i counts
\* the members written, files is the member files, dir tells whether files
\* can be created under the prefix (write_file succeeds)
unpack_members(mem, e, op, dir, files, i) ==
    LET names == get_names(op.client, op.type)
    IN  IF finished(mem, e)
        THEN [error |-> unpack_success, files |-> files, i |-> i]
        ELSE IF i >= Len(names)
        THEN [error |-> unpack_too_many_members, files |-> files, i |-> i]
        ELSE IF ~dir
        THEN [error |-> unpack_write_error, files |-> files, i |-> i]
        ELSE LET dstname == member_path(op.prefix, names[i + 1],
                                get_archive_member_extension(op.type))
                 payload == span_bytes(mem, enumerator_data(mem, e))
             IN  unpack_members(mem, advance(mem, e), op, dir,
                                [files EXCEPT ![dstname] = file_of(payload)],
                                i + 1)

\* the if chain of perform_unpack_operation after the for_each, on what the
\* lambda left in u
unpack_report(u, names) ==
    IF u.error = unpack_success
    THEN [reason |-> "", files |-> u.files, i |-> u.i]
    ELSE IF u.error = unpack_too_many_members
    THEN [reason |-> "", files |-> u.files, i |-> u.i]
    ELSE IF unpack_write_error # 0
    THEN [reason |-> "failed to write member to corresponding file",
          files |-> u.files, i |-> -1]
    ELSE IF u.i < Len(names)
    THEN [reason |-> "loaded archive has missing members",
          files |-> u.files, i |-> -1]
    ELSE [reason |-> "", files |-> u.files, i |-> u.i]

\* perform_unpack_operation from the switch on what read_from_file returned
unpack_loaded(rd, op, dir, files) ==
    IF rd.ret = "could_not_open_file"
    THEN [reason |-> "could not open file", files |-> files, i |-> -1]
    ELSE IF rd.ret = "archive_data_is_corrupt"
    THEN [reason |-> "archive is corrupt", files |-> files, i |-> -1]
    ELSE unpack_report(unpack_members(rd.archive.filebuf.bytes,
                                      enumerate(rd.archive), op, dir, files,
                                      0),
                       get_names(op.client, op.type))

\* perform_unpack_operation(op) with f the file found at op.file.  reason is
\* the error string returned ("" for nullptr) and i the count it prints
perform_unpack_operation(op, f, dir, files) ==
    unpack_loaded(read_from_file(empty_archive, f), op, dir, files)

RECURSIVE read_member_files(_, _, _, _)
\* the loop of perform_pack_operation that reads the member files: the
\* buffers read, and whether every read_file gave a buffer
read_member_files(op, files, k, filebufs) ==
    LET names == get_names(op.client, op.type)
    IN  IF k > Len(names) THEN [ok |-> TRUE, filebufs |-> filebufs]
        ELSE LET filepath == member_path(op.prefix, names[k],
                                 get_archive_member_extension(op.type))
                 filebuf  == read_file(files[filepath])
             IN  IF ~filebuf.owned
                 THEN [ok |-> FALSE, filebufs |-> filebufs]
                 ELSE read_member_files(op, files, k + 1,
                                        Append(filebufs, filebuf.bytes))

\* the switch of perform_pack_operation on what flush_to_file returned
pack_report(w) ==
    [reason |-> IF w.ret = "success" THEN ""
                ELSE IF w.ret = "no_data_to_write" THEN "no data to write"
                ELSE "could not open output file for writing",
     written |-> w.written,
     bytes |-> w.bytes]

\* perform_pack_operation once the member files are read into m
pack_members(m, writable) ==
    IF ~m.ok
    THEN [reason |-> "failed to read member file", written |-> FALSE,
          bytes |-> <<>>]
    ELSE pack_report(flush_to_file(
                        load_members_from(empty_archive, m.filebufs),
                        writable))

\* perform_pack_operation(op); writable tells whether op.file can be opened
\* for writing.  written tells whether op.file was written, with bytes
perform_pack_operation(op, files, writable) ==
    pack_members(read_member_files(op, files, 1, <<>>), writable)

(***************************************************************************)
(* Inputs                                                                  *)
(***************************************************************************)
\* the longest member list assembled
MaxMembers == 2

\* the payloads members are made of
Pool == << <<>>, <<1, 2, 3, 4, 5>>, <<9, 9, 9>> >>

\* the list of n members taken from the pool in cyclic order from position v
cyclic(n, v) == [i \in 1..n |-> Pool[((v + i - 2) % Len(Pool)) + 1]]

\* the member lists load_members_from is called with
MemberLists == {cyclic(n, v) : n \in 0..MaxMembers, v \in 1..Len(Pool)}

\* the path of the archive file, and a path that fopen cannot open
ArchiveFile == "a.bin"
BadPath     == "nodir/a.bin"
Paths       == {ArchiveFile, BadPath}

\* the longest file of arbitrary bytes put at the archive's path
MaxRawLen == 36

\* a file of n bytes that is no archive
raw_bytes(n) == [i \in 1..n |-> (37 * i + 11) % 256]

\* the most well-formed chunks in front of a malformed one
MaxGood == 2

\* the ends of a malformed chunk region: a length field that does not fit
\* (1, 3 and 2 bytes), and declared lengths that exceed what remains
BadTails == << <<1>>, <<1, 0, 0>>, <<1, 0, 0, 0>>, <<5, 0, 0, 0, 7>>,
               <<255, 255, 255, 255>>, <<1, 0>> >>

\* the archive image with chunk region r: the region, the digest string of
\* the region and its terminator, encrypted as a whole
image_of(r) == encrypt_buffer(r \o compute_md5_digest(r) \o <<0>>)

\* files whose digest matches a malformed chunk region: good[k] well-formed
\* chunks, then a tail
malformed_images ==
    [k \in 0..MaxGood |-> [t \in 1..Len(BadTails) |->
        image_of(write_members(cyclic(k, 2)) \o BadTails[t])]]

VARIABLES
    filebuf,   \* archive::filebuf
    data,      \* archive::data, a span into filebuf
    disk,      \* the file at ArchiveFile
    origin,    \* how the file at ArchiveFile came to be, and from what
    held,      \* the member list the archive was last loaded with
    call,      \* the last operation, its arguments and what it returned
    cbuf,      \* a buffer handed to encrypt_buffer / decrypt_buffer
    cplain,    \* what cbuf held before any of them was applied
    ctrace,    \* the calls applied to cbuf so far, in order
    op,        \* the client, type and prefix the tool is run with
    files,     \* the member files: what is found at each member path
    dir,       \* whether the directory the prefix names exists
    out,       \* the file at the tool's OUTPUT_FILE
    unpacked,  \* the member files are as a successful unpack left them
    tcall,     \* the tool's last operation and what it returned
    emem,      \* the bytes an archive_enumerator ranges over
    erange,    \* archive_enumerator::range, the view that remains
    esteps,    \* the calls of advance since the enumerator was made
    eseen,     \* the payload ranges data() gave before each advance
    efirst     \* the payload ranges of the first complete enumeration

codec_vars  == <<filebuf, data, disk, origin, held, call>>
cipher_vars == <<cbuf, cplain, ctrace>>
tool_vars   == <<op, files, dir, out, unpacked, tcall>>
enum_vars   == <<emem, erange, esteps, eseen, efirst>>
vars == <<filebuf, data, disk, origin, held, call, cbuf, cplain, ctrace,
          op, files, dir, out, unpacked, tcall,
          emem, erange, esteps, eseen, efirst>>

\* the archive object
archive == [filebuf |-> filebuf, data |-> data]

no_op == [op |-> "none", path |-> "", ret |-> "", member |-> -1,
          visitor |-> "", visited |-> <<>>, has_value |-> FALSE, value |-> 0]

no_origin == [kind |-> "none", members |-> <<>>, tail |-> 0]

\* no buffer is being encrypted
CipherIdle == cbuf = <<>> /\ cplain = <<>> /\ ctrace = <<>>

no_tool_call == [mode |-> "none", reason |-> "", i |-> -1]

\* the tool has not been run
ToolIdle ==
    /\ op = [client |-> "pc", type |-> "fx", prefix |-> default_prefix("fx")]
    /\ files = [p \in MemberPaths |-> no_file]
    /\ dir = FALSE
    /\ out = no_file
    /\ unpacked = FALSE
    /\ tcall = no_tool_call

no_first == [set |-> FALSE, seq |-> <<>>]

\* no enumerator has been made
EnumIdle ==
    /\ emem = <<>>
    /\ erange = null_span
    /\ esteps = 0
    /\ eseen = <<>>
    /\ efirst = no_first

\* shader_packager::archive archive; and no file at the archive's path
CodecInit ==
    /\ filebuf = empty_archive.filebuf
    /\ data = empty_archive.data
    /\ disk = no_file
    /\ origin = no_origin
    /\ held = <<>>
    /\ call = no_op

Init == CodecInit /\ CipherIdle /\ ToolIdle /\ EnumIdle

\* archive.load_members_from(member_bufs)
LoadMembersFrom(member_bufs) ==
    \E a \in {load_members_from(archive, member_bufs)} :
        /\ filebuf' = a.filebuf
        /\ data' = a.data
        /\ held' = member_bufs
        /\ call' = [no_op EXCEPT !.op = "load_members_from"]
        /\ UNCHANGED <<disk, origin, cipher_vars, tool_vars, enum_vars>>

\* archive.flush_to_file(path)
FlushToFile(path) ==
    \E r \in {flush_to_file(archive, path = ArchiveFile)} :
        /\ filebuf' = r.archive.filebuf
        /\ data' = r.archive.data
        /\ disk' = IF r.written THEN file_of(r.bytes) ELSE disk
        /\ origin' = IF r.written
                     THEN [kind |-> "flush", members |-> held, tail |-> 0]
                     ELSE origin
        /\ held' = IF r.ret = "success" THEN <<>> ELSE held
        /\ call' = [no_op EXCEPT !.op = "flush_to_file", !.path = path,
                                 !.ret = r.ret]
        /\ UNCHANGED <<cipher_vars, tool_vars, enum_vars>>

\* archive.read_from_file(path)
ReadFromFile(path) ==
    \E r \in {read_from_file(archive,
                              IF path = ArchiveFile THEN disk ELSE no_file)} :
        /\ filebuf' = r.archive.filebuf
        /\ data' = r.archive.data
        /\ held' = IF r.ret = "success" THEN origin.members ELSE held
        /\ call' = [no_op EXCEPT !.op = "read_from_file", !.path = path,
                                 !.ret = r.ret, !.member = r.member]
        /\ UNCHANGED <<disk, origin, cipher_vars, tool_vars, enum_vars>>

\* archive.for_each(f)
ForEach(f) ==
    \E r \in {for_each(archive, f)} :
        /\ call' = [no_op EXCEPT !.op = "for_each", !.visitor = f,
                                 !.visited = r.visited,
                                 !.has_value = r.has_value,
                                 !.value = r.value]
        /\ UNCHANGED <<filebuf, data, disk, origin, held, cipher_vars,
                     tool_vars, enum_vars>>

\* something else writes n arbitrary bytes at the archive's path
PutRaw(n) ==
    /\ disk' = file_of(raw_bytes(n))
    /\ origin' = [kind |-> "raw", members |-> <<>>, tail |-> 0]
    /\ call' = no_op
    /\ UNCHANGED <<filebuf, data, held, cipher_vars, tool_vars, enum_vars>>

\* something else writes a file whose digest matches a chunk region of k
\* well-formed chunks followed by the malformed end BadTails[t]
PutMalformed(k, t) ==
    /\ disk' = file_of(malformed_images[k][t])
    /\ origin' = [kind |-> "malformed", members |-> cyclic(k, 2), tail |-> t]
    /\ call' = no_op
    /\ UNCHANGED <<filebuf, data, held, cipher_vars, tool_vars, enum_vars>>

Next ==
    \/ \E member_bufs \in MemberLists : LoadMembersFrom(member_bufs)
    \/ \E path \in Paths : FlushToFile(path)
    \/ \E path \in Paths : ReadFromFile(path)
    \/ \E f \in Visitors : ForEach(f)
    \/ \E n \in {0, min_file_size - 1, MaxRawLen} : PutRaw(n)
    \/ PutMalformed(1, 4)

\* the archive through any sequence of its operations, with other programs
\* writing to the archive's path in between
Spec == Init /\ [][Next]_vars

(***************************************************************************)
(* read_from_file on every kind of file, from an empty and a loaded archive *)
(***************************************************************************)
\* the member lists whose archive can be flushed
Flushable == {m \in MemberLists : m # <<>>}

\* the file flush_to_file writes for the member list m
flushed_image(m) ==
    flush_to_file(load_members_from(empty_archive, m), TRUE).bytes

ReadInit ==
    /\ \/ /\ filebuf = empty_archive.filebuf
          /\ data = empty_archive.data
          /\ held = <<>>
       \/ \E a \in {load_members_from(empty_archive, cyclic(2, 1))} :
            /\ filebuf = a.filebuf
            /\ data = a.data
            /\ held = cyclic(2, 1)
    /\ \/ \E n \in 0..MaxRawLen :
            /\ disk = file_of(raw_bytes(n))
            /\ origin = [kind |-> "raw", members |-> <<>>, tail |-> 0]
       \/ \E k \in 0..MaxGood, t \in 1..Len(BadTails) :
            /\ disk = file_of(malformed_images[k][t])
            /\ origin = [kind |-> "malformed", members |-> cyclic(k, 2),
                         tail |-> t]
       \/ \E m \in Flushable :
            /\ disk = file_of(flushed_image(m))
            /\ origin = [kind |-> "flush", members |-> m, tail |-> 0]
       \/ /\ disk = file_of(image_of(<<>>))
          /\ origin = [kind |-> "empty", members |-> <<>>, tail |-> 0]
       \/ disk = no_file /\ origin = no_origin
    /\ call = no_op
    /\ CipherIdle
    /\ ToolIdle
    /\ EnumIdle

ReadNext ==
    \/ \E path \in Paths : ReadFromFile(path)
    \/ \E f \in Visitors : ForEach(f)

SpecRead == ReadInit /\ [][ReadNext]_vars

(***************************************************************************)
(* one bit of a written file's chunk region flipped, then read_from_file   *)
(***************************************************************************)
\* the longest member list whose written file is tampered with
MaxTamperMembers == 1

\* byte b with bit k (0: least significant) flipped
flip_bit(b, k) ==
    IF (b \div TwoTo(k)) % 2 = 1 THEN b - TwoTo(k) ELSE b + TwoTo(k)

\* bytes with bit number n flipped, counting from bit 0 of the first byte
flip(bytes, n) ==
    [i \in 1..Len(bytes) |->
        IF i = (n \div 8) + 1 THEN flip_bit(bytes[i], n % 8) ELSE bytes[i]]

\* the file is decrypted, bit n of its chunk region is flipped, and the
\* result (trailer as it was) is encrypted again
FlipBit(n) ==
    /\ origin.kind = "flush"
    /\ n < 8 * (Len(disk.bytes) - trailer_size)
    /\ disk' = file_of(encrypt_buffer(flip(decrypt_buffer(disk.bytes), n)))
    /\ origin' = [kind |-> "flipped", members |-> origin.members, tail |-> n]
    /\ call' = no_op
    /\ UNCHANGED <<filebuf, data, held, cipher_vars, tool_vars, enum_vars>>

TamperInit ==
    /\ filebuf = empty_archive.filebuf
    /\ data = empty_archive.data
    /\ held = <<>>
    /\ \E m \in {x \in Flushable : Len(x) <= MaxTamperMembers} :
            /\ disk = file_of(flushed_image(m))
            /\ origin = [kind |-> "flush", members |-> m, tail |-> 0]
    /\ call = no_op
    /\ CipherIdle
    /\ ToolIdle
    /\ EnumIdle

TamperNext ==
    \/ \E n \in 0..(8 * (MaxTamperMembers * (header_size + 5)) - 1) : FlipBit(n)
    \/ ReadFromFile(ArchiveFile)

SpecTamper == TamperInit /\ [][TamperNext]_vars

(***************************************************************************)
(* one byte of a written file's trailer replaced, then read_from_file      *)
(***************************************************************************)
\* the bytes put in place of a trailer byte: a zero, a one, an upper-case
\* hex digit and 255
Replacements == {0, 1, 70, 255}

\* bytes with byte number j (from 1) replaced by b
replace_byte(bytes, j, b) ==
    [i \in 1..Len(bytes) |-> IF i = j THEN b ELSE bytes[i]]

\* the decrypted trailer of the file on disk: its last 33 bytes
trailer_on_disk ==
    LET plain == decrypt_buffer(disk.bytes)
    IN  SubSeq(plain, Len(plain) - trailer_size + 1, Len(plain))

\* the digest string of the decrypted chunk region of the file on disk
digest_on_disk ==
    LET plain == decrypt_buffer(disk.bytes)
    IN  compute_md5_digest(SubSeq(plain, 1, Len(plain) - trailer_size))

\* the file is decrypted, byte j of its trailer is replaced by b, and the
\* result (chunk region as it was) is encrypted again
AlterTrailer(j, b) ==
    /\ origin.kind = "flush"
    /\ \E plain \in {decrypt_buffer(disk.bytes)} :
         \E at \in {Len(plain) - trailer_size + j} :
            /\ b # plain[at]
            /\ disk' = file_of(encrypt_buffer(replace_byte(plain, at, b)))
    /\ origin' = [kind |-> "trailer", members |-> origin.members, tail |-> j]
    /\ call' = no_op
    /\ UNCHANGED <<filebuf, data, held, cipher_vars, tool_vars, enum_vars>>

\* the same with the letter at byte j of the trailer made upper-case
UpperCase(j) ==
    /\ origin.kind = "flush"
    /\ \E plain \in {decrypt_buffer(disk.bytes)} :
         \E at \in {Len(plain) - trailer_size + j} :
            /\ plain[at] \in 97..102
            /\ disk' = file_of(encrypt_buffer(
                            replace_byte(plain, at, plain[at] - 32)))
    /\ origin' = [kind |-> "trailer", members |-> origin.members, tail |-> j]
    /\ call' = no_op
    /\ UNCHANGED <<filebuf, data, held, cipher_vars, tool_vars, enum_vars>>

\* the member lists whose written file has its trailer altered: files of
\* 37, 42 and 49 bytes
TrailerLists == { <<Pool[1]>>, <<Pool[2]>>, <<Pool[3], Pool[2]>> }

TrailerInit ==
    /\ filebuf = empty_archive.filebuf
    /\ data = empty_archive.data
    /\ held = <<>>
    /\ \E m \in TrailerLists :
            /\ disk = file_of(flushed_image(m))
            /\ origin = [kind |-> "flush", members |-> m, tail |-> 0]
    /\ call = no_op
    /\ CipherIdle
    /\ ToolIdle
    /\ EnumIdle

TrailerNext ==
    \/ \E j \in 1..trailer_size, b \in Replacements : AlterTrailer(j, b)
    \/ \E j \in 1..trailer_size : UpperCase(j)
    \/ ReadFromFile(ArchiveFile)

SpecTrailer == TrailerInit /\ [][TrailerNext]_vars

(***************************************************************************)
(* encrypt_buffer and decrypt_buffer on buffers of every length            *)
(***************************************************************************)
\* the longest buffer encrypted
MaxBufLen == 17

\* the contents tried for a buffer of n bytes
buffer_contents(n) ==
    { [i \in 1..n |-> 0], [i \in 1..n |-> 255],
      [i \in 1..n |-> (73 * i + 5 * n) % 256] }

CipherInit ==
    /\ CodecInit
    /\ ToolIdle
    /\ EnumIdle
    /\ \E n \in 0..MaxBufLen : cbuf \in buffer_contents(n)
    /\ cplain = cbuf
    /\ ctrace = <<>>

\* encrypt_buffer(h1_tea, cbuf)
EncryptBuffer ==
    /\ Len(ctrace) < 2
    /\ cbuf' = encrypt_buffer(cbuf)
    /\ ctrace' = Append(ctrace, "encrypt")
    /\ UNCHANGED <<cplain, codec_vars, tool_vars, enum_vars>>

\* decrypt_buffer(h1_tea, cbuf)
DecryptBuffer ==
    /\ Len(ctrace) < 2
    /\ cbuf' = decrypt_buffer(cbuf)
    /\ ctrace' = Append(ctrace, "decrypt")
    /\ UNCHANGED <<cplain, codec_vars, tool_vars, enum_vars>>

CipherNext == EncryptBuffer \/ DecryptBuffer

SpecCipher == CipherInit /\ [][CipherNext]_vars

(***************************************************************************)
(* encrypt_chunk and decrypt_chunk on single 8-byte blocks                 *)
(***************************************************************************)
\* the largest offset of the byte patterns tried as blocks
MaxBlockSeed == 15

\* the 8-byte blocks tried
block_contents ==
    { [i \in 1..chunk_size |-> (a * i + b) % 256] :
        a \in {0, 73, 255}, b \in 0..MaxBlockSeed }

BlockInit ==
    /\ CodecInit
    /\ ToolIdle
    /\ EnumIdle
    /\ cbuf \in block_contents
    /\ cplain = cbuf
    /\ ctrace = <<>>

\* h1_tea.encrypt_chunk(cbuf)
EncryptChunk ==
    /\ Len(ctrace) < 2
    /\ cbuf' = encrypt_chunk(cbuf, 1)
    /\ ctrace' = Append(ctrace, "encrypt_chunk")
    /\ UNCHANGED <<cplain, codec_vars, tool_vars, enum_vars>>

\* h1_tea.decrypt_chunk(cbuf)
DecryptChunk ==
    /\ Len(ctrace) < 2
    /\ cbuf' = decrypt_chunk(cbuf, 1)
    /\ ctrace' = Append(ctrace, "decrypt_chunk")
    /\ UNCHANGED <<cplain, codec_vars, tool_vars, enum_vars>>

BlockNext == EncryptChunk \/ DecryptChunk

SpecBlock == BlockInit /\ [][BlockNext]_vars

(***************************************************************************)
(* the tool: unpack an archive into member files, pack them again          *)
(***************************************************************************)
\* the members of the archives the tool is given: one byte each, the byte
\* of member zero_at left out
tool_members(n, zero_at) ==
    [i \in 1..n |-> IF i = zero_at THEN <<>> ELSE <<16 + i>>]

\* how far the member count of an archive is from the size of the table
MaxCountOff == 1

\* the archives given to the tool run with op: member counts around the
\* size of the table, without a zero-length member and with one
tool_archives(o) ==
    LET n == Len(get_names(o.client, o.type))
    IN  { tool_members(k, z) :
            k \in {c \in (n - MaxCountOff)..(n + MaxCountOff) : c >= 1},
            z \in {0, 1, n} }

ToolOps ==
    { [client |-> c, type |-> t, prefix |-> default_prefix(t)] :
        c \in Clients, t \in Types }

ToolInit ==
    /\ filebuf = empty_archive.filebuf
    /\ data = empty_archive.data
    /\ held = <<>>
    /\ call = no_op
    /\ CipherIdle
    /\ EnumIdle
    /\ op \in ToolOps
    /\ \/ \E m \in tool_archives(op) :
            /\ disk = file_of(flushed_image(m))
            /\ origin = [kind |-> "flush", members |-> m, tail |-> 0]
       \/ /\ disk = file_of(raw_bytes(MaxRawLen))
          /\ origin = [kind |-> "raw", members |-> <<>>, tail |-> 0]
       \/ disk = no_file /\ origin = no_origin
    /\ files = [p \in MemberPaths |-> no_file]
    /\ dir \in BOOLEAN
    /\ out = no_file
    /\ unpacked = FALSE
    /\ tcall = no_tool_call

\* h1sp -u {-pc|-ce} {-fx|-vsh} INPUT_FILE
Unpack ==
    \E r \in {perform_unpack_operation(op, disk, dir, files)} :
        /\ files' = r.files
        /\ unpacked' = IF r.reason = "" THEN TRUE ELSE unpacked
        /\ tcall' = [mode |-> "unpack", reason |-> r.reason, i |-> r.i]
        /\ UNCHANGED <<codec_vars, cipher_vars, enum_vars, op, dir, out>>

\* h1sp -p {-pc|-ce} {-fx|-vsh} OUTPUT_FILE
Pack ==
    \E r \in {perform_pack_operation(op, files, TRUE)} :
        /\ out' = IF r.written THEN file_of(r.bytes) ELSE out
        /\ tcall' = [mode |-> "pack", reason |-> r.reason, i |-> -1]
        /\ UNCHANGED <<codec_vars, cipher_vars, enum_vars, op, files, dir,
                     unpacked>>

\* the user changes the first member file
EditMember ==
    /\ dir
    /\ \E p \in {member_path(op.prefix, get_names(op.client, op.type)[1],
                             get_archive_member_extension(op.type))} :
        /\ files[p] # file_of(<<7, 7>>)
        /\ files' = [files EXCEPT ![p] = file_of(<<7, 7>>)]
    /\ unpacked' = FALSE
    /\ tcall' = no_tool_call
    /\ UNCHANGED <<codec_vars, cipher_vars, enum_vars, op, dir, out>>

ToolNext == Unpack \/ Pack \/ EditMember

SpecTool == ToolInit /\ [][ToolNext]_vars

(***************************************************************************)
(* an archive_enumerator over chunk regions, well-formed and not            *)
(***************************************************************************)
\* length fields as they lie in the region: 0, 1, 3, 4, 8, 256, 65536,
\* 2^31 - 1, 2^31, 2^32 - 4 and 2^32 - 1
Headers ==
    { <<0, 0, 0, 0>>, <<1, 0, 0, 0>>, <<3, 0, 0, 0>>, <<4, 0, 0, 0>>,
      <<8, 0, 0, 0>>, <<0, 1, 0, 0>>, <<0, 0, 1, 0>>, <<255, 255, 255, 127>>,
      <<0, 0, 0, 128>>, <<252, 255, 255, 255>>, <<255, 255, 255, 255>> }

\* the longest region that starts with one of the length fields
MaxViewLen == 12

\* the most calls of advance on one enumerator
MaxAdvances == 6

\* the regions enumerated: the first bytes of a length field followed by
\* zero bytes, at every length, and the regions load_members_from writes
EnumRegions ==
    { SubSeq(h \o [i \in 1..MaxViewLen |-> 0], 1, n) :
        h \in Headers, n \in 0..MaxViewLen }
    \cup { write_members(m) : m \in MemberLists }

EnumInit ==
    /\ CodecInit
    /\ CipherIdle
    /\ ToolIdle
    /\ emem \in EnumRegions
    /\ erange = [null |-> FALSE, off |-> 0, size |-> Len(emem)]
    /\ esteps = 0
    /\ eseen = <<>>
    /\ efirst = no_first

\* e.advance(), after e.data() if e is not finished
Advance ==
    /\ esteps < MaxAdvances
    /\ eseen' = IF finished(emem, erange) THEN eseen
                ELSE Append(eseen, enumerator_data(emem, erange))
    /\ erange' = advance(emem, erange)
    /\ esteps' = esteps + 1
    /\ UNCHANGED <<emem, efirst, codec_vars, cipher_vars, tool_vars>>

\* a new enumerator over the same region, as enumerate() makes it
Enumerate ==
    /\ esteps > 0
    /\ erange' = [null |-> FALSE, off |-> 0, size |-> Len(emem)]
    /\ esteps' = 0
    /\ eseen' = <<>>
    /\ efirst' = IF finished(emem, erange) /\ ~efirst.set
                 THEN [set |-> TRUE, seq |-> eseen]
                 ELSE efirst
    /\ UNCHANGED <<emem, codec_vars, cipher_vars, tool_vars>>

EnumNext == Advance \/ Enumerate

SpecEnum == EnumInit /\ [][EnumNext]_vars

(***************************************************************************)
(* load_members_from on every short list of members, then the archive's    *)
(* other operations                                                        *)
(***************************************************************************)
\* the longest list assembled
MaxAssembled == 3

\* every list of at most MaxAssembled payloads of the pool
AssembleLists ==
    UNION { [1..n -> {Pool[i] : i \in 1..Len(Pool)}] : n \in 0..MaxAssembled }

\* a fresh archive is assembled once, then enumerated and flushed
AssembleNext ==
    \/ /\ call.op = "none"
       /\ \E member_bufs \in AssembleLists : LoadMembersFrom(member_bufs)
    \/ \E f \in Visitors : ForEach(f)
    \/ \E path \in Paths : FlushToFile(path)

SpecAssemble == Init /\ [][AssembleNext]_vars

(***************************************************************************)
(* Properties of the codec                                                 *)
(***************************************************************************)

\* C1 (round trip): after a non-empty list of payloads was assembled and
\* flushed to a file, reading that file succeeds and the codec enumerates
\* the same payloads, byte for byte and in the same order.
C1_RoundTrip ==
    (call.op = "read_from_file" /\ call.path = ArchiveFile
        /\ origin.kind = "flush")
    => /\ origin.members # <<>>
       /\ call.ret = "success"
       /\ filebuf.owned
       /\ members_of(archive) = origin.members

\* a file holding an empty and a non-empty member has been read back
C1_Witness ==
    /\ call.op = "read_from_file" /\ call.ret = "success"
    /\ origin.kind = "flush"
    /\ origin.members = <<Pool[1], Pool[2]>>
    /\ members_of(archive) = <<Pool[1], Pool[2]>>

\* C2 (cipher involution): decrypting what the buffer policy encrypted gives
\* the buffer back whatever its length, and a buffer shorter than one block
\* goes through either direction unchanged.
C2_Involution ==
    /\ ctrace = <<"encrypt", "decrypt">> => cbuf = cplain
    /\ Len(cplain) < chunk_size => cbuf = cplain

\* a buffer with a partial last block went through both directions
C2_Witness ==
    /\ ctrace = <<"encrypt", "decrypt">>
    /\ Len(cplain) > chunk_size /\ Len(cplain) % chunk_size # 0
    /\ cbuf = cplain

\* C3 (read atomicity): a read_from_file that returns a failure leaves the
\* codec exactly as it was: same buffer, same chunk region, same members.
C3_ReadAtomic ==
    [][(call'.op = "read_from_file" /\ call'.ret # "success")
        => /\ filebuf' = filebuf
           /\ data' = data
           /\ members_of(archive)' = members_of(archive)]_vars

\* a Loaded codec has kept its members through a read that passed the digest
\* comparison and failed on the chunks
C3_Witness ==
    /\ call.op = "read_from_file" /\ call.ret = "archive_data_is_corrupt"
    /\ origin.kind = "malformed"
    /\ filebuf.owned /\ held # <<>>
    /\ members_of(archive) = held

\* C4 (digest binding): once one bit of the decrypted chunk region of a
\* flushed file is inverted and the file re-encrypted, read_from_file fails
\* at the digest comparison with Corrupt and does not load the file.
C4_DigestBinding ==
    (call.op = "read_from_file" /\ origin.kind = "flipped")
    => /\ call.ret = "archive_data_is_corrupt"
       /\ call.member = -1
       /\ filebuf.owned => members_of(archive) = held

\* the inverted bit was in a payload byte, which the chunk validation does
\* not look at
C4_Witness ==
    /\ call.op = "read_from_file" /\ call.ret = "archive_data_is_corrupt"
    /\ origin.kind = "flipped"
    /\ origin.tail >= 8 * header_size


\* C5 (truncation): read_from_file of a file of any length from 0 to 33
\* bytes fails with Corrupt.  A file of length 0 is reported as
\* could_not_open_file instead, because read_file gives an empty buffer for
\* it: the statement does not hold.
C5_Truncation ==
    (call.op = "read_from_file" /\ call.path = ArchiveFile
        /\ origin.kind = "raw" /\ Len(disk.bytes) < min_file_size)
    => call.ret = "archive_data_is_corrupt"

\* C6 (chunk overrun reporting), as the code has it: when the digest matches
\* and the chunk after k well-formed chunks is cut short or declares a
\* payload past the end of the region, read_from_file fails with Corrupt and
\* the member index it reports is k, the number of well-formed chunks.
C6_OverrunReported ==
    (call.op = "read_from_file" /\ call.path = ArchiveFile
        /\ origin.kind = "malformed")
    => /\ call.ret = "archive_data_is_corrupt"
       /\ call.member = Len(origin.members)

\* one well-formed chunk, then a header declaring more than is left
C6_Witness ==
    /\ call.op = "read_from_file" /\ call.ret = "archive_data_is_corrupt"
    /\ origin.kind = "malformed"
    /\ Len(origin.members) = 1 /\ BadTails[origin.tail] = <<5, 0, 0, 0, 7>>
    /\ call.member = 1

\* C6 as stated: the reported index is k + 1
C6_OneBased ==
    (call.op = "read_from_file" /\ call.path = ArchiveFile
        /\ origin.kind = "malformed")
    => /\ call.ret = "archive_data_is_corrupt"
       /\ call.member = Len(origin.members) + 1

\* C7 (write precondition): flush_to_file returns NoData exactly when the
\* codec is Empty or its chunk region is shorter than 4 bytes, whether or
\* not the file can be opened.
C7_WritePrecondition ==
    [][call'.op = "flush_to_file"
        => ((call'.ret = "no_data_to_write")
                <=> (~filebuf.owned \/ data.size < header_size))]_vars

\* NoData came back for a path that cannot be opened, on an archive
\* assembled from no members
C7_Witness ==
    /\ call.op = "flush_to_file" /\ call.path = BadPath
    /\ call.ret = "no_data_to_write"
    /\ filebuf.owned /\ data.size = 0

\* C8 (flush empties the codec): after flush_to_file returns success the
\* codec is Empty: enumerating it visits nothing, for_each invokes no
\* visitor, and flushing it again gives NoData.
C8_FlushEmpties ==
    (call.op = "flush_to_file" /\ call.ret = "success")
    => /\ ~filebuf.owned /\ data.null
       /\ members_of(archive) = <<>>
       /\ \A f \in Visitors :
            for_each(archive, f) =
                [visited |-> <<>>, has_value |-> FALSE, value |-> 0]
       /\ \A path \in Paths :
            flush_to_file(archive, path = ArchiveFile).ret
                = "no_data_to_write"

\* two members went to the file and the codec is Empty
C8_Witness ==
    /\ call.op = "flush_to_file" /\ call.ret = "success"
    /\ disk.exists /\ Len(origin.members) = 2
    /\ ~filebuf.owned

\* C9 (unpack/repack identity): once the tool has unpacked an archive it
\* accepts and the member files are left as they are, packing them with the
\* same client and type succeeds and writes a file identical to the archive,
\* byte for byte.  An archive with a zero-length member is unpacked into an
\* empty member file, which read_file reports as unreadable, so packing
\* fails: the statement does not hold.
C9_UnpackRepack ==
    (tcall.mode = "pack" /\ unpacked)
    => /\ tcall.reason = ""
       /\ out = disk

\* C10 (stoppable for_each): the visitor is invoked on the members in
\* archive order; the first result that tests true ends the iteration and is
\* returned, no later member being visited; if none tests true every member
\* is visited and nothing is returned.
C10_StoppableForEach ==
    call.op = "for_each"
    => LET n == Len(call.visited)
       IN  /\ n <= Len(held)
           /\ call.visited = SubSeq(held, 1, n)
           /\ \A i \in 1..(n - 1) : visit(call.visitor, held[i], i - 1) = 0
           /\ IF call.has_value
              THEN /\ n >= 1
                   /\ call.value # 0
                   /\ call.value = visit(call.visitor, held[n], n - 1)
              ELSE /\ n = Len(held)
                   /\ n >= 1 => visit(call.visitor, held[n], n - 1) = 0

\* the iteration stopped at the first of two members
C10_Witness ==
    /\ call.op = "for_each" /\ call.has_value
    /\ Len(held) = 2 /\ Len(call.visited) = 1

\* C11 (chunk-region invariant): whenever the codec owns a buffer, through
\* any sequence of read, assemble, write and enumerate calls, failed ones
\* included, the chunk region starts at the first byte of the buffer and is
\* 33 bytes shorter than it, so it covers no byte of the trailer; when the
\* codec owns nothing the region is the null span.
C11_ChunkRegion ==
    IF filebuf.owned
    THEN /\ filebuf.nbytes = Len(filebuf.bytes)
         /\ ~data.null
         /\ data.off = 0
         /\ data.size = filebuf.nbytes - trailer_size
         /\ data.size >= 0
    ELSE data = null_span

\* a Loaded codec right after a call that failed
C11_Witness ==
    /\ filebuf.owned /\ data.size > 0
    /\ data.size + trailer_size = Len(filebuf.bytes)
    /\ \/ call.op = "read_from_file" /\ call.ret = "archive_data_is_corrupt"
       \/ call.op = "flush_to_file" /\ call.ret = "could_not_open_file"

\* C12 (assemble layout): after load_members_from the codec holds a buffer
\* of (sum of member lengths) + 4 * (member count) + 33 bytes: for each
\* member in input order its length as 4 little-endian bytes and then its
\* payload, then the 32 hex characters of the digest of exactly those bytes,
\* then one zero byte; nothing of it is encrypted.
C12_AssembleLayout ==
    call.op = "load_members_from"
    => LET b == filebuf.bytes
           RECURSIVE offset(_)
           offset(i) ==
               IF i = 1 THEN 0
               ELSE offset(i - 1) + 4 + Len(held[i - 1])
           region == offset(Len(held) + 1)
           le32(n) == <<n % 256, (n \div 256) % 256, (n \div 65536) % 256,
                        n \div 16777216>>
       IN  /\ filebuf.owned
           /\ filebuf.nbytes = Len(b)
           /\ Len(b) = region + 33
           /\ data = [null |-> FALSE, off |-> 0, size |-> region]
           /\ \A i \in 1..Len(held) :
                /\ SubSeq(b, offset(i) + 1, offset(i) + 4) = le32(Len(held[i]))
                /\ SubSeq(b, offset(i) + 5, offset(i) + 4 + Len(held[i]))
                        = held[i]
           /\ SubSeq(b, region + 1, region + 32)
                = compute_md5_digest(SubSeq(b, 1, region))
           /\ \A k \in (region + 1)..(region + 32) :
                b[k] \in (48..57) \cup (97..102)
           /\ b[region + 33] = 0

\* members of 0, 5 and 3 bytes: a chunk region of 20 bytes, 53 bytes in all,
\* with the digest c3110eabf8443c03fdb2255b32539d07 of the region
C12_Witness ==
    /\ call.op = "load_members_from"
    /\ held = << <<>>, <<1, 2, 3, 4, 5>>, <<9, 9, 9>> >>
    /\ data.size = 20
    /\ filebuf.bytes =
        <<0, 0, 0, 0, 5, 0, 0, 0, 1, 2, 3, 4, 5, 3, 0, 0, 0, 9, 9, 9,
          99, 51, 49, 49, 48, 101, 97, 98, 102, 56, 52, 52, 51, 99, 48, 51,
          102, 100, 98, 50, 50, 53, 53, 98, 51, 50, 53, 51, 57, 100, 48, 55,
          0>>

\* C13 (has_error): with r the size of the remaining view and L the 32-bit
\* length declared at its start, has_error is false when r = 0, true when
\* 0 < r < 4, and for r >= 4 true exactly when L + 4 > r, the sum not
\* wrapping for L up to 2^32 - 1 (it is taken in std::size_t, 64 bits wide);
\* is_at_end and has_error are never both true and finished is their
\* disjunction.
C13_HasError ==
    LET r  == erange.size
        at == erange.off
        lo == emem[at + 1] + 256 * emem[at + 2]
        hi == emem[at + 3] + 256 * emem[at + 4]
    IN  /\ has_error(emem, erange)
            = (IF r = 0 THEN FALSE
               ELSE IF r < 4 THEN TRUE
               ELSE hi > 0 \/ lo + 4 > r)
        /\ is_at_end(erange) = (r = 0)
        /\ ~(is_at_end(erange) /\ has_error(emem, erange))
        /\ finished(emem, erange)
            = (is_at_end(erange) \/ has_error(emem, erange))

\* the length field holds 2^32 - 4, which plus 4 is 0 in 32 bits, and
\* has_error is true
C13_Witness ==
    /\ erange.size >= 4
    /\ SubSeq(emem, erange.off + 1, erange.off + 4) = <<252, 255, 255, 255>>
    /\ has_error(emem, erange)
    /\ ~is_at_end(erange)

\* C14 (advance): advance on a finished enumerator does nothing, however
\* often it is called; otherwise it removes exactly the first 4 + L bytes of
\* the remaining view, L being the length read from its first four bytes,
\* and never moves past the end of the region.
C14_Advance ==
    [][ esteps' = esteps + 1 =>
          /\ emem' = emem
          /\ IF finished(emem, erange)
             THEN erange' = erange /\ finished(emem', erange')
             ELSE LET L == emem[erange.off + 1] + 256 * emem[erange.off + 2]
                  IN  /\ emem[erange.off + 3] = 0 /\ emem[erange.off + 4] = 0
                      /\ erange'.off = erange.off + 4 + L
                      /\ erange'.size = erange.size - (4 + L)
                      /\ erange'.size >= 0
                      /\ erange'.off + erange'.size = Len(emem) ]_vars

\* two chunks were removed and the rest does not hold a chunk: further calls
\* of advance were made and the view is where the second advance left it
C14_Witness ==
    /\ Len(eseen) = 2
    /\ esteps >= 4
    /\ erange.off > 0
    /\ erange.size > 0
    /\ has_error(emem, erange)

\* C15 (single-block inverse): for every 8-byte block b,
\* decrypt_chunk(encrypt_chunk(b)) = b and encrypt_chunk(decrypt_chunk(b)) = b;
\* the accumulator decrypt_chunk starts from, 0xC6EF3720, is 32 times
\* 0x9E3779B9 modulo 2^32, the value encrypt_chunk's accumulator ends with.
C15_BlockInverse ==
    LET lo32 == delta[2] * tea_rounds
        hi32 == delta[1] * tea_rounds + (lo32 \div Half)
    IN  /\ Len(cbuf) = chunk_size
        /\ Len(ctrace) = 2 /\ ctrace[1] # ctrace[2] => cbuf = cplain
        /\ Len(ctrace) = 1 /\ ctrace[1] = "encrypt_chunk"
              => decrypt_chunk(cbuf, 1) = cplain
        /\ Len(ctrace) = 1 /\ ctrace[1] = "decrypt_chunk"
              => encrypt_chunk(cbuf, 1) = cplain
        /\ decrypt_sum0 = <<hi32 % Half, lo32 % Half>>
        /\ ctrace = <<>>
              => encrypt_rounds(<<deserialize(cbuf, 1), deserialize(cbuf, 5),
                                  <<0, 0>>, 0>>)[3] = decrypt_sum0

\* a block was encrypted to something else and decrypted back
C15_Witness ==
    /\ ctrace = <<"encrypt_chunk", "decrypt_chunk">>
    /\ cbuf = cplain
    /\ cplain = [i \in 1..chunk_size |-> (73 * i + 5) % 256]
    /\ encrypt_chunk(cplain, 1) # cplain

\* C16 (trailer compared over all 33 bytes): read_from_file succeeds only if
\* the last 33 bytes of the decrypted file are the 32 lower-case hex digest
\* characters of the chunk region followed by a zero byte; a file whose 32
\* digest characters match but whose last decrypted byte is not zero fails
\* with Corrupt, as does one with any trailer byte replaced.
C16_TrailerExact ==
    call.op = "read_from_file" /\ call.path = ArchiveFile
    => /\ call.ret = "success"
            => \E t \in {trailer_on_disk} :
                /\ t = digest_on_disk \o <<0>>
                /\ \A i \in 1..(trailer_size - 1) :
                        t[i] \in (48..57) \cup (97..102)
       /\ origin.kind = "trailer"
            => call.ret = "archive_data_is_corrupt" /\ call.member = -1
       /\ origin.kind = "flush" => call.ret = "success"

\* the 32 digest characters on disk match and the byte after them is not
\* zero: the read failed
C16_Witness ==
    /\ call.op = "read_from_file" /\ call.ret = "archive_data_is_corrupt"
    /\ origin.kind = "trailer" /\ origin.tail = trailer_size
    /\ \E t \in {trailer_on_disk} :
        /\ t[trailer_size] # 0
        /\ SubSeq(t, 1, trailer_size - 1) = digest_on_disk

\* C17 (enumeration is finite and restartable): over a region of n bytes,
\* well-formed or not, every advance made while not finished takes at least
\* 4 bytes off the remaining view, so the enumerator is finished after at
\* most n / 4 advances; the region is not modified, and an enumerator made
\* again by enumerate() yields the same payload ranges in the same order.
C17_FiniteRestartable ==
    LET n == Len(emem)
    IN  /\ erange.off + erange.size = n
        /\ erange.size <= n - header_size * Len(eseen)
        /\ Len(eseen) <= n \div header_size
        /\ esteps >= n \div header_size => finished(emem, erange)
        /\ finished(emem, erange) => Len(eseen) <= esteps
        /\ \A i \in 1..Len(eseen) :
                /\ eseen[i].off >= header_size * i
                /\ eseen[i].off + eseen[i].size <= erange.off
                /\ i > 1 => eseen[i].off
                               >= eseen[i - 1].off + eseen[i - 1].size
                                    + header_size
        /\ efirst.set =>
                /\ Len(eseen) <= Len(efirst.seq)
                /\ eseen = SubSeq(efirst.seq, 1, Len(eseen))
                /\ finished(emem, erange) => eseen = efirst.seq

\* a region of three chunks enumerated to its end a second time, with the
\* same three payload ranges as the first time
C17_Witness ==
    /\ efirst.set
    /\ Len(efirst.seq) = 3
    /\ eseen = efirst.seq
    /\ esteps = 3
    /\ Len(emem) = 12
    /\ is_at_end(erange)

\* C18 (unpack member-count policy): when a successfully read archive has
\* more members than the name table, unpack writes the first names.size()
\* members and reports success; when it has fewer, perform_unpack_operation
\* returns "loaded archive has missing members"; the write-failure error is
\* returned only when writing a member file failed.  The test of the
\* enumerator unpack_write_error instead of error == unpack_write_error keeps
\* the missing-members branch from ever being taken: an archive with fewer
\* members is unpacked with success, and the statement does not hold.
C18_UnpackPolicy ==
    (tcall.mode = "unpack" /\ origin.kind = "flush")
    => LET names == get_names(op.client, op.type)
           k     == Len(origin.members)
       IN  /\ (k > Len(names) /\ dir)
                => tcall.reason = "" /\ tcall.i = Len(names)
           /\ (k < Len(names) /\ dir)
                => tcall.reason = "loaded archive has missing members"
           /\ tcall.reason = "failed to write member to corresponding file"
                => ~dir

\* C19 (a failed write leaves the codec untouched): when flush_to_file
\* returns NoData or CouldNotOpen the owned buffer and the chunk region are
\* as they were and no file is written; the buffer is not encrypted, so the
\* codec enumerates the same members and a later flush to a file that can be
\* opened writes the bytes it would have written without the failed call.
C19_FailedWrite ==
    [][(call'.op = "flush_to_file" /\ call'.ret # "success")
        => /\ filebuf' = filebuf
           /\ data' = data
           /\ disk' = disk
           /\ held' = held
           /\ filebuf'.owned =>
                /\ filebuf'.bytes
                     = load_members_from(empty_archive, held).filebuf.bytes
                /\ members_of(archive') = held
           /\ data'.size >= header_size =>
                flush_to_file(archive', TRUE).bytes = flushed_image(held)]_vars

\* the file could not be opened for an archive of two members, which still
\* holds them in the clear
C19_Witness ==
    /\ call.op = "flush_to_file" /\ call.ret = "could_not_open_file"
    /\ call.path = BadPath
    /\ Len(held) = 2
    /\ members_of(archive) = held
    /\ data.size >= header_size

\* C20 (what read_from_file loads is well-formed and not empty): after every
\* read_from_file that returns success, an enumerator over the chunk region
\* ends with is_at_end true and has_error false after at least one chunk;
\* the chunks' sizes 4 + length add up to the size of the region, the
\* payload ranges being in order, apart and inside it; so no file of 34 to
\* 36 bytes and no archive of zero chunks loads, and flush_to_file right
\* after the read does not return NoData.
C20_LoadedWellFormed ==
    /\ (call.op = "read_from_file" /\ call.ret = "success")
        => /\ filebuf.owned
           /\ Len(disk.bytes) >= header_size + trailer_size
           /\ data.size >= header_size
           /\ \E v \in {validate(filebuf.bytes, enumerate(archive))} :
                /\ is_at_end(v.e)
                /\ ~has_error(filebuf.bytes, v.e)
                /\ v.member >= 1
                /\ v.member = Len(members_of(archive))
           /\ \E ms \in {members_of(archive)} :
                LET RECURSIVE total(_)
                    total(i) == IF i > Len(ms) THEN 0
                                ELSE header_size + Len(ms[i]) + total(i + 1)
                    RECURSIVE at(_)
                    at(i) == IF i = 1 THEN header_size
                             ELSE at(i - 1) + Len(ms[i - 1]) + header_size
                IN  /\ total(1) = data.size
                    /\ \A i \in 1..Len(ms) :
                        /\ at(i) + Len(ms[i]) <= data.size
                        /\ ms[i] = SubSeq(filebuf.bytes, at(i) + 1,
                                          at(i) + Len(ms[i]))
           /\ \A path \in Paths :
                flush_to_file(archive, path = ArchiveFile).ret
                    # "no_data_to_write"
    /\ (call.op = "read_from_file" /\ call.path = ArchiveFile
            /\ (origin.kind = "empty"
                    \/ Len(disk.bytes) < header_size + trailer_size))
        => call.ret # "success"
    /\ (call.op = "read_from_file" /\ call.path = ArchiveFile
            /\ (origin.kind = "empty"
                    \/ Len(disk.bytes) \in min_file_size..(min_file_size + 2)))
        => call.ret = "archive_data_is_corrupt"

\* a written archive of two members, the first without payload, was loaded
C20_Witness ==
    /\ call.op = "read_from_file" /\ call.ret = "success"
    /\ Len(members_of(archive)) = 2
    /\ members_of(archive)[1] = <<>>
    /\ data.size = 2 * header_size + Len(members_of(archive)[2])

====
